---- MODULE Spec2Model ----
(***************************************************************************)
(* A model of herbie/models/aqm.py: the Herbie template of the NOAA Air    *)
(* Quality Model.  The object `self` is a function from attribute names to *)
(* values, so hasattr(self, a) is  a \in DOMAIN self.  Strings that the    *)
(* code searches (`"max" in self.product`) or interpolates are sequences   *)
(* of one-character strings; Str renders them as text.                     *)
(***************************************************************************)
EXTENDS Integers, Sequences, FiniteSets, TLC

VARIABLES
    given,   \* the attributes the caller put on the object (never changes)
    self,    \* the object: attribute name -> value
    pc,      \* "new", "ready", "failed", "opened", "annotated"
    exc,     \* the exception template raised, <<>> when none
    args,    \* the arguments of the xarray call, <<>> before the call
    calls,   \* the calls made to the collaborators, in order
    ds       \* the dataset xarray returned, <<>> before the call

vars == <<given, self, pc, exc, args, calls, ds>>

----------------------------------------------------------------------------
(* Strings *)

RECURSIVE Str(_)
Str(s) == IF s = <<>> THEN "" ELSE Head(s) \o Str(Tail(s))

\* Python's  sub in s  on strings
Contains(sub, s) ==
    \E i \in 0..(Len(s) - Len(sub)) : SubSeq(s, i + 1, i + Len(sub)) = sub

Digit(d) == <<"0", "1", "2", "3", "4", "5", "6", "7", "8", "9">>[d + 1]

\* format(n, "d"), as an f-string renders an int
RECURSIVE Dec(_)
Dec(n) == IF n < 10 THEN Digit(n) ELSE Dec(n \div 10) \o Digit(n % 10)

\* strftime %m, %d, %H: two digits, zero padded
Fmt2(n) == Digit((n \div 10) % 10) \o Digit(n % 10)

\* strftime %Y for a four-digit year
Fmt4(n) == Fmt2(n \div 100) \o Fmt2(n % 100)

\* f"{date:%Y%m%d}" and f"{date:%H}"
Ymd(date) == Fmt4(date.year) \o Fmt2(date.month) \o Fmt2(date.day)
HH(date) == Fmt2(date.hour)

\* repr() of a str without quotes or escapes in it, and of a list of them
ReprStr(s) == <<"'">> \o s \o <<"'">>
RECURSIVE ReprItems(_)
ReprItems(l) ==
    IF l = <<>> THEN <<>>
    ELSE IF Len(l) = 1 THEN ReprStr(l[1])
    ELSE ReprStr(l[1]) \o <<",", " ">> \o ReprItems(Tail(l))
ReprList(l) == <<"[">> \o ReprItems(l) \o <<"]">>

\* obj.k = v
Set(obj, k, v) == [x \in DOMAIN obj \cup {k} |-> IF x = k THEN v ELSE obj[x]]

----------------------------------------------------------------------------
(* The values of the request *)

CS == <<"C", "S">>
AK == <<"A", "K">>
HI == <<"H", "I">>

v5 == <<"v", "5">>
v6 == <<"v", "6">>
v7 == <<"v", "7">>

U == <<"_">>
ave == <<"a", "v", "e">>
max == <<"m", "a", "x">>
h1 == <<"1", "h", "r">>
h8 == <<"8", "h", "r">>
h24 == <<"2", "4", "h", "r">>
o3 == <<"o", "3">>
pm25 == <<"p", "m", "2", "5">>
bc == <<"_", "b", "c">>

ave_1hr_o3 == ave \o U \o h1 \o U \o o3
ave_8hr_o3 == ave \o U \o h8 \o U \o o3
max_1hr_o3 == max \o U \o h1 \o U \o o3
max_8hr_o3 == max \o U \o h8 \o U \o o3
ave_1hr_pm25 == ave \o U \o h1 \o U \o pm25
ave_24hr_pm25 == ave \o U \o h24 \o U \o pm25
max_1hr_pm25 == max \o U \o h1 \o U \o pm25

PRODUCTS ==
    [ave_1hr_o3 |-> "1-hour average ozone",
     ave_1hr_o3_bc |-> "1-hour average ozone (bias-corrected)",
     ave_8hr_o3 |-> "8-hour average ozone",
     ave_8hr_o3_bc |-> "8-hour average ozone (bias-corrected)",
     max_1hr_o3 |-> "Maximum 1-hour ozone",
     max_1hr_o3_bc |-> "Maximum 1-hour ozone (bias-corrected)",
     max_8hr_o3 |-> "Maximum 8-hour ozone",
     max_8hr_o3_bc |-> "Maximum 8-hour ozone (bias-corrected)",
     ave_1hr_pm25 |-> "1-hour average PM2.5",
     ave_1hr_pm25_bc |-> "1-hour average PM2.5 (bias-corrected)",
     ave_24hr_pm25 |-> "24-hour average PM2.5",
     ave_24hr_pm25_bc |-> "24-hour average PM2.5 (bias-corrected)",
     max_1hr_pm25 |-> "Maximum 1-hour PM2.5",
     max_1hr_pm25_bc |-> "Maximum 1-hour PM2.5 (bias-corrected)"]

----------------------------------------------------------------------------
(* template *)

\* lines 60-62: the default domain, when the caller set none
DefaultDomain(s) == IF "domain" \in DOMAIN s THEN s ELSE Set(s, "domain", CS)

\* lines 64-75: the default version, then the date rules
SetVersion(s) ==
    LET s1 == IF "version" \in DOMAIN s THEN s ELSE Set(s, "version", v7)
        d == s.date
    IN  IF d.year < 2021 \/ (d.year = 2021 /\ d.month < 7)
        THEN Set(s1, "version", v5)
        ELSE IF \/ d.year < 2024
                \/ (d.year = 2024 /\ d.month < 5)
                \/ (d.year = 2024 /\ d.month = 5 /\ d.day < 14)
        THEN Set(s1, "version", v6)
        ELSE s1

\* a variant of valid_domains that forgets Hawaii
valid_domains_without_HI == <<CS, AK>>

\* line 95
valid_domains == <<CS, AK, HI>>

InList(x, l) == \E i \in 1..Len(l) : l[i] = x

\* a variant of DomainError whose message lists nothing
DomainError_bare ==
    [type |-> "ValueError",
     msg |-> <<"i", "n", "v", "a", "l", "i", "d", " ", "d", "o", "m", "a", "i", "n">>]

\* line 97: the ValueError of an invalid domain
DomainError ==
    [type |-> "ValueError",
     msg |-> <<"'", "d", "o", "m", "a", "i", "n", "'", " ", "m", "u", "s", "t",
               " ", "b", "e", " ", "o", "n", "e", " ", "o", "f", " ">>
             \o ReprList(valid_domains)]

\* a variant of s3_path that encodes the forecast hour in the file name
s3_path_with_fxx(s) ==
    "AQM" \o Str(s.version) \o "/" \o Str(s.domain) \o "/" \o Ymd(s.date)
    \o "/" \o HH(s.date) \o "/aqm.t" \o HH(s.date) \o "z."
    \o Str(s.product) \o "." \o Ymd(s.date) \o "." \o Dec(s.fxx) \o ".grib2"

\* lines 101-106: the path below the bucket
s3_path(s) ==
    IF s.version = v7
    THEN "AQMv7/" \o Str(s.domain) \o "/" \o Ymd(s.date) \o "/" \o HH(s.date)
         \o "/aqm.t" \o HH(s.date) \o "z." \o Str(s.product) \o "."
         \o Ymd(s.date) \o ".227.grib2"
    ELSE "AQM" \o Str(s.version) \o "/" \o Str(s.domain) \o "/" \o Ymd(s.date)
         \o "/" \o HH(s.date) \o "/aqm.t" \o HH(s.date) \o "z."
         \o Str(s.product) \o "." \o Ymd(s.date) \o ".227.grib2"

\* lines 108-110
Sources(s) == [aws |-> "https://noaa-nws-naqfc-pds.s3.amazonaws.com/" \o s3_path(s)]

\* lines 53-92: everything template sets before it validates the domain
Preamble(s) ==
    LET a == Set(s, "model", "aqm")
        b == Set(a, "DESCRIPTION", "NOAA Air Quality Model (AQM)")
        c == Set(b, "DETAILS",
                 ("Product description" :> "https://registry.opendata.aws/noaa-nws-naqfc-pds/")
                 @@ ("Model documentation" :> "https://vlab.noaa.gov/web/osti-modeling/air-quality"))
    IN  Set(SetVersion(DefaultDomain(c)), "PRODUCTS", PRODUCTS)

\* lines 99-113: what template sets once the domain is valid
Finish(s) ==
    LET a == Set(s, "SOURCES", Sources(s))
        b == Set(a, "IDX_SUFFIX", <<".idx">>)
    IN  Set(b, "LOCALFILE", "get_remoteFileName")

template ==
    /\ pc = "new"
    /\ LET s == Preamble(self)
       IN  IF ~InList(s.domain, valid_domains)
           THEN /\ self' = s
                /\ exc' = DomainError
                /\ pc' = "failed"
           ELSE /\ self' = Finish(s)
                /\ exc' = exc
                /\ pc' = "ready"
    /\ UNCHANGED <<given, args, calls, ds>>

----------------------------------------------------------------------------
(* xarray *)

None == [None |-> TRUE]

Min(a, b) == IF a < b THEN a ELSE b

\* a variant of time_idx that forgets the cap of 2
time_idx_uncapped(fxx, n) == Min(fxx, n - 1)

\* line 150: min(self.fxx, 2, len(ds.time)-1)
time_idx(fxx, n) == Min(fxx, Min(2, n - 1))

\* ds.isel(time=i): the entry i of the axis, and the axis is gone
isel_time(d, i) ==
    [d EXCEPT !.dims = [k \in DOMAIN d.dims \ {"time"} |-> d.dims[k]],
              !.time = <<d.time[i + 1]>>]

\* ds.attrs[k] = v
SetAttr(d, k, v) == [d EXCEPT !.attrs = Set(d.attrs, k, v)]

\* lines 134-138: the options of the decoder for a maximum product
max_backend_kwargs(bk) ==
    Set(Set(Set(bk, "decode_times", FALSE),
            "filter_by_keys", [typeOfLevel |-> "surface"]),
        "time_dims", <<>>)

\* lines 147-152: the window of a maximum product
select_window(s, d) ==
    IF "time" \in DOMAIN d.dims /\ Len(d.time) > 1
    THEN LET i == time_idx(s.fxx, Len(d.time))
         IN  SetAttr(isel_time(d, i), "time_window", i)
    ELSE d

\* lines 154-157
add_metadata(s, d) ==
    SetAttr(SetAttr(SetAttr(d, "model", s.model), "product", s.product),
            "domain", s.domain)

\* line 129: self.download(search, **download_kwargs)
download_call(search, dk) ==
    [fn |-> "download", search |-> search, kwargs |-> dk, returned |-> "local_file"]

\* lines 141-145: xr.open_dataset(local_file, engine="cfgrib", backend_kwargs=...)
open_dataset_call(file, bk, decoded) ==
    [fn |-> "xr.open_dataset", file |-> file, engine |-> "cfgrib",
     backend_kwargs |-> bk, returned |-> decoded]

\* a variant of super_xarray_call that leaves remove_grib to its default
super_xarray_call_default_remove(search, bk, rg, dk, decoded) ==
    [fn |-> "super.xarray", search |-> search, backend_kwargs |-> bk,
     remove_grib |-> TRUE, kwargs |-> dk, returned |-> decoded]

\* lines 162-167: super().xarray(search=..., backend_kwargs=..., remove_grib=..., **download_kwargs)
super_xarray_call(search, bk, rg, dk, decoded) ==
    [fn |-> "super.xarray", search |-> search, backend_kwargs |-> bk,
     remove_grib |-> rg, kwargs |-> dk, returned |-> decoded]

\* lines 115-167, for the dataset `decoded` that the decoder yields
xarray_with(search, backend_kwargs, remove_grib, download_kwargs, decoded) ==
    LET bk == IF backend_kwargs = None THEN <<>> ELSE backend_kwargs
        dl == download_call(search, download_kwargs)
    IN  /\ args' = [search |-> search, backend_kwargs |-> backend_kwargs,
                    remove_grib |-> remove_grib, download_kwargs |-> download_kwargs]
        /\ IF Contains(max, self.product)
           THEN LET op == open_dataset_call(dl.returned, max_backend_kwargs(bk), decoded)
                IN  /\ calls' = <<dl, op>>
                    /\ ds' = add_metadata(self, select_window(self, op.returned))
           ELSE LET su == super_xarray_call(search, bk, remove_grib, download_kwargs, decoded)
                IN  /\ calls' = <<dl, su>>
                    /\ ds' = su.returned
        /\ pc' = "opened"
        /\ UNCHANGED <<given, self, exc>>

----------------------------------------------------------------------------
(* _post_process_dataset *)

\* a variant of product_metadata that does not look for the variable of an
\* average ozone product
product_metadata_unguarded(product, d) ==
    IF Contains(o3, product) /\ ~Contains(max, product)
    THEN SetAttr(SetAttr(SetAttr(d, "variable", "ozcon"), "units", "ppb"),
                 "description",
                 IF Contains(h1, product) THEN "1-hour average ozone"
                 ELSE "8-hour average ozone")
    ELSE d

\* lines 226-260: the attributes that depend on the product
product_metadata(product, d) ==
    LET describe(variable, units, description) ==
            SetAttr(SetAttr(SetAttr(d, "variable", variable), "units", units),
                    "description", description)
    IN  IF Contains(o3, product)
        THEN IF Contains(max, product)
             THEN IF "OZMAX1" \in d.names
                  THEN describe("OZMAX1", "ppbV", "Maximum 1-hour ozone")
                  ELSE IF "OZMAX8" \in d.names
                  THEN describe("OZMAX8", "ppbV", "Maximum 8-hour ozone")
                  ELSE d
             ELSE IF "ozcon" \in d.names
                  THEN describe("ozcon", "ppb",
                                IF Contains(h1, product) THEN "1-hour average ozone"
                                ELSE "8-hour average ozone")
                  ELSE d
        ELSE IF Contains(pm25, product)
        THEN IF Contains(max, product)
             THEN IF "PMMAX" \in d.names
                  THEN describe("PMMAX", "µg/m³", "Maximum PM2.5")
                  ELSE d
             ELSE IF "pmtf" \in d.names
                  THEN describe("pmtf", "µg/m³",
                                IF Contains(h1, product) THEN "1-hour average PM2.5"
                                ELSE "24-hour average PM2.5")
                  ELSE d
        ELSE d

\* a variant of processing_note that cites no forecast hour
processing_note_fixed(s) == "Processed with Herbie AQM module"

\* line 263
processing_note(s) ==
    "Processed with Herbie AQM module for forecast hour " \o Dec(s.fxx)

\* lines 218-265
post_process(s, d) ==
    LET a == SetAttr(d, "model", "aqm")
        b == SetAttr(a, "product", s.product)
        c == SetAttr(b, "domain", s.domain)
        e == SetAttr(c, "version", s.version)
        f == product_metadata(s.product, e)
    IN  SetAttr(f, "processing", processing_note(s))

post_process_dataset ==
    /\ pc = "opened"
    /\ ds' = post_process(self, ds)
    /\ pc' = "annotated"
    /\ UNCHANGED <<given, self, exc, args, calls>>

----------------------------------------------------------------------------
(* The requests *)

MaxFxx == 3

Years == {2020, 2021, 2023, 2024, 2025}
Months == {1, 5, 6, 7, 8, 12}
Days == {1, 13, 14, 19, 20, 28}
Hours == {6, 12}
Dates == [year : Years, month : Months, day : Days, hour : Hours]

New(date, product, fxx, domain, version) ==
    LET a == [date |-> date, product |-> product, fxx |-> fxx]
        b == IF domain = <<>> THEN a ELSE Set(a, "domain", domain[1])
    IN  IF version = <<>> THEN b ELSE Set(b, "version", version[1])

Opt(S) == {<<>>} \cup {<<x>> : x \in S}

InitWith(D, P, F, Dom, V) ==
    /\ \E d \in D, p \in P, f \in F, dom \in Opt(Dom), v \in Opt(V) :
           /\ given = New(d, p, f, dom, v)
           /\ self = given
    /\ pc = "new"
    /\ exc = <<>>
    /\ args = <<>>
    /\ calls = <<>>
    /\ ds = <<>>

TemplateInit ==
    InitWith(Dates, {max_1hr_o3, <<"s", "o", "2">>}, {0, MaxFxx},
             {CS, AK, HI, <<"X", "X">>, <<"c", "s">>, <<"C">>},
             {v5, v6, v7, <<"v", "8">>})

TemplateNext == template

TemplateSpec == TemplateInit /\ [][TemplateNext]_vars

(* The calls of xarray and the datasets the decoder yields *)

MaxTimeLen == 4

Searches == {None, [str |-> ":OZMAX1:"]}
BackendKwargs == {None, <<>>, [indexpath |-> ""]}
DownloadKwargs == {<<>>, [overwrite |-> TRUE]}

NameSets ==
    {{}, {"OZMAX1"}, {"OZMAX8"}, {"OZMAX1", "OZMAX8"}, {"ozcon"}, {"PMMAX"},
     {"pmtf"}, {"ozcon", "pmtf"}}

\* a dataset with a time axis of n entries, or with none when n = -1
Decoded(names, n) ==
    [names |-> names \cup {"latitude", "longitude"} \cup (IF n >= 0 THEN {"time"} ELSE {}),
     dims |-> IF n >= 0 THEN [time |-> n, y |-> 2, x |-> 2] ELSE [y |-> 2, x |-> 2],
     time |-> IF n >= 0 THEN [i \in 1..n |-> 100 + i] ELSE <<>>,
     attrs |-> [GRIB_centre |-> "kwbc"]]

Datasets == {Decoded(names, n) : names \in NameSets, n \in -1..MaxTimeLen}

xarray ==
    /\ pc = "ready"
    /\ \E search \in Searches, backend_kwargs \in BackendKwargs,
          remove_grib \in BOOLEAN, download_kwargs \in DownloadKwargs,
          decoded \in Datasets :
           xarray_with(search, backend_kwargs, remove_grib, download_kwargs, decoded)

Products ==
    {ave_1hr_o3, ave_8hr_o3, max_1hr_o3, max_8hr_o3, ave_1hr_pm25, ave_24hr_pm25,
     max_1hr_pm25, ave_8hr_o3 \o bc, max_1hr_pm25 \o bc, <<"s", "o", "2">>,
     o3 \o U \o max}

Init ==
    InitWith({[year |-> 2024, month |-> 6, day |-> 1, hour |-> 12]},
             Products, 0..MaxFxx \cup {5, 72}, {AK, <<"X", "X">>}, {})

Next == template \/ xarray \/ post_process_dataset

Spec == Init /\ [][Next]_vars

----------------------------------------------------------------------------
(* The properties of template *)

\* the date as the text YYYYMMDD and the hour as HH, written with ToString
Two(n) == IF n < 10 THEN "0" \o ToString(n) ELSE ToString(n)
DateText(d) == ToString(d.year) \o Two(d.month) \o Two(d.day)

\* d is strictly before the day y-m-dd
Before(d, y, m, dd) ==
    \/ d.year < y
    \/ (d.year = y /\ d.month < m)
    \/ (d.year = y /\ d.month = m /\ d.day < dd)

\* the version the date ranges give: v5 before 2021-07-20, v6 before
\* 2024-05-14, v7 from then on
VersionOfDate(d) ==
    IF Before(d, 2021, 7, 20) THEN v5
    ELSE IF Before(d, 2024, 5, 14) THEN v6
    ELSE v7

\* the URL of the archive for a version, domain, product and run date
ArchiveUrl(version, domain, product, d) ==
    "https://noaa-nws-naqfc-pds.s3.amazonaws.com/AQM" \o Str(version) \o "/"
    \o Str(domain) \o "/" \o DateText(d) \o "/" \o Two(d.hour) \o "/aqm.t"
    \o Two(d.hour) \o "z." \o Str(product) \o "." \o DateText(d) \o ".227.grib2"

\* C1: when the caller supplies no version, template resolves it from the
\* run date alone: v5 before 2021-07-20, v6 in [2021-07-20, 2024-05-14),
\* v7 from 2024-05-14 on, each boundary day in the later range.
C1_VersionFromDate ==
    (pc # "new" /\ "version" \notin DOMAIN given)
        => self.version = VersionOfDate(given.date)

\* C2: a version the caller supplies is used as it is for every run date:
\* it is the effective version after template and the directory AQM<version>
\* of the source URL is made of it.
C2_ExplicitVersionKept ==
    (pc # "new" /\ "version" \in DOMAIN given)
        => /\ self.version = given.version
           /\ pc = "ready" =>
                  self.SOURCES.aws =
                      ArchiveUrl(given.version, self.domain, given.product, given.date)

\* C3: template accepts the domains CS, AK and HI and leaves them as they
\* are; every other domain string is rejected with a ValueError, and then
\* there is no SOURCES, no LOCALFILE and the domain is still the caller's.
C3_DomainValidation ==
    (pc # "new" /\ "domain" \in DOMAIN given)
        => IF given.domain \in {CS, AK, HI}
           THEN /\ pc = "ready"
                /\ exc = <<>>
                /\ self.domain = given.domain
                /\ {"SOURCES", "LOCALFILE"} \subseteq DOMAIN self
           ELSE /\ pc = "failed"
                /\ exc # <<>>
                /\ exc.type = "ValueError"
                /\ "SOURCES" \notin DOMAIN self
                /\ "LOCALFILE" \notin DOMAIN self
                /\ self.domain = given.domain

C3_Rejected ==
    /\ pc = "failed"
    /\ given.domain = <<"c", "s">>
    /\ self.domain = <<"c", "s">>
    /\ "SOURCES" \notin DOMAIN self

\* the message names every member of the allowed set
NamesAllowedSet(msg) == \A d \in {CS, AK, HI} : Contains(ReprStr(d), msg)

\* C4 as stated: the error of an invalid domain names the offending domain
\* value and the allowed set {CS, AK, HI}.
C4_ErrorNamesValueAndSet ==
    pc = "failed" => (Contains(self.domain, exc.msg) /\ NamesAllowedSet(exc.msg))

\* C4 as amended: the error of an invalid domain is the same text for every
\* invalid value, 'domain' must be one of ['CS', 'AK', 'HI']: it names the
\* parameter and the allowed set, and the offending value is not put in it.
C4_ErrorNamesSetOnly ==
    pc = "failed"
        => /\ Str(exc.msg) = "'domain' must be one of ['CS', 'AK', 'HI']"
           /\ NamesAllowedSet(exc.msg)

C4_ValueNotNamed ==
    /\ pc = "failed"
    /\ self.domain = <<"X", "X">>
    /\ ~Contains(self.domain, exc.msg)
    /\ NamesAllowedSet(exc.msg)

\* C5: for every valid domain, resolved version, run date and product
\* (in the catalog or not) template succeeds and the aws source is
\* https://noaa-nws-naqfc-pds.s3.amazonaws.com/AQM<version>/<domain>/<YYYYMMDD>/<HH>/aqm.t<HH>z.<product>.<YYYYMMDD>.227.grib2,
\* a function of domain, resolved version, product and run date with 227
\* in the forecast-hour slot; the forecast hour is no part of it.
C5_SourceUrl ==
    (pc # "new" /\ self.domain \in {CS, AK, HI})
        => /\ pc = "ready"
           /\ DOMAIN self.SOURCES = {"aws"}
           /\ self.SOURCES.aws =
                  ArchiveUrl(self.version, self.domain, given.product, given.date)

C5_UncataloguedProduct ==
    /\ pc = "ready"
    /\ Str(given.product) \notin DOMAIN PRODUCTS
    /\ self.version = <<"v", "8">>
    /\ given.fxx = MaxFxx
    /\ self.SOURCES.aws =
           "https://noaa-nws-naqfc-pds.s3.amazonaws.com/AQMv8/AK/20240514/06/aqm.t06z.so2.20240514.227.grib2"

----------------------------------------------------------------------------
(* The properties of xarray and _post_process_dataset *)

Returned == pc \in {"opened", "annotated"}

\* the dataset the decoder yielded to the xarray call
Yielded == calls[2].returned

HasAttr(k) == k \in DOMAIN ds.attrs

\* C6: for a maximum product whose decoded dataset has a time axis of n
\* entries: if n > 1, xarray takes the one window of index min(fxx, 2, n-1)
\* (0 for fxx 0, 1 for fxx 1, else 2 or the last index), the axis is gone and
\* time_window is that index, a valid index of the axis; if n is 0 or 1 or
\* there is no time axis, the dataset is not selected from and has no
\* time_window.
C6_WindowSelection ==
    (Returned /\ Contains(max, given.product))
        => LET n == IF "time" \in DOMAIN Yielded.dims THEN Yielded.dims.time ELSE -1
               i == IF given.fxx = 0 THEN 0
                    ELSE IF given.fxx = 1 THEN 1
                    ELSE IF n - 1 < 2 THEN n - 1 ELSE 2
           IN  IF n > 1
               THEN /\ i \in 0..(n - 1)
                    /\ ds.time = <<Yielded.time[i + 1]>>
                    /\ "time" \notin DOMAIN ds.dims
                    /\ HasAttr("time_window")
                    /\ ds.attrs.time_window = i
               ELSE /\ ~HasAttr("time_window")
                    /\ ds.dims = Yielded.dims
                    /\ ds.time = Yielded.time

C6_Clamped ==
    /\ pc = "opened"
    /\ given.product = max_1hr_o3
    /\ given.fxx = 5
    /\ "time" \in DOMAIN Yielded.dims
    /\ Yielded.dims.time = 4
    /\ ds.attrs.time_window = 2
    /\ ds.time = <<103>>

\* the variables a product's branch looks for
ExpectedNames(product) ==
    IF Contains(o3, product)
    THEN IF Contains(max, product) THEN {"OZMAX1", "OZMAX8"} ELSE {"ozcon"}
    ELSE IF Contains(pm25, product)
    THEN IF Contains(max, product) THEN {"PMMAX"} ELSE {"pmtf"}
    ELSE {}

\* C7: _post_process_dataset sets variable, units and description if and
\* only if the product matches a branch and a variable that branch looks for
\* is in the dataset; otherwise none of the three is set and nothing is
\* raised.  "8-hour average ozone" is set only if ozcon is in the dataset.
C7_DescriptiveAttributes ==
    pc = "annotated"
        => LET found == ExpectedNames(given.product) \cap ds.names # {}
           IN  /\ HasAttr("variable") <=> found
               /\ HasAttr("units") <=> found
               /\ HasAttr("description") <=> found
               /\ found => ds.attrs.variable \in ExpectedNames(given.product) \cap ds.names
               /\ (found /\ given.product = ave_8hr_o3)
                      => ds.attrs.description = "8-hour average ozone"
               /\ (HasAttr("description")
                      /\ ds.attrs.description = "8-hour average ozone")
                      => "ozcon" \in ds.names
               /\ exc = <<>>

C7_VariableAbsent ==
    /\ pc = "annotated"
    /\ given.product = ave_8hr_o3
    /\ "ozcon" \notin ds.names
    /\ "pmtf" \in ds.names
    /\ ~HasAttr("variable")
    /\ ~HasAttr("units")
    /\ ~HasAttr("description")

\* C8: whenever _post_process_dataset sets units, it is "ppbV" for every
\* ozone product, maximum or average, and "µg/m³" for every PM2.5 product.
C8_Units ==
    (pc = "annotated" /\ HasAttr("units"))
        => /\ Contains(o3, given.product) => ds.attrs.units = "ppbV"
           /\ (~Contains(o3, given.product) /\ Contains(pm25, given.product))
                  => ds.attrs.units = "µg/m³"

\* C9: for every product and every dataset _post_process_dataset completes
\* without raising (every attribute it reads is on the object and nothing
\* is raised), and the dataset has a processing attribute that cites the
\* forecast hour, and the model, product, domain and version attributes.
C9_ProcessingNote ==
    /\ pc = "opened" => {"product", "domain", "version", "fxx"} \subseteq DOMAIN self
    /\ pc = "annotated"
           => /\ exc = <<>>
              /\ ds.attrs.processing =
                     "Processed with Herbie AQM module for forecast hour "
                     \o ToString(given.fxx)
              /\ ds.attrs.model = "aqm"
              /\ ds.attrs.product = given.product
              /\ ds.attrs.domain = self.domain
              /\ ds.attrs.version = self.version

C9_UnmatchedProduct ==
    /\ pc = "annotated"
    /\ given.product = <<"s", "o", "2">>
    /\ given.fxx = 72
    /\ ds.attrs.processing = "Processed with Herbie AQM module for forecast hour 72"
    /\ ~HasAttr("variable")

\* what C10 says of both paths but the backend_kwargs of the delegation
TwoPaths ==
    /\ Len(calls) = 2
    /\ calls[1] = [fn |-> "download", search |-> args.search,
                   kwargs |-> args.download_kwargs, returned |-> "local_file"]
    /\ IF Contains(max, given.product)
       THEN /\ calls[2].fn = "xr.open_dataset"
            /\ calls[2].backend_kwargs.decode_times = FALSE
            /\ calls[2].backend_kwargs.filter_by_keys = [typeOfLevel |-> "surface"]
            /\ calls[2].backend_kwargs.time_dims = <<>>
            /\ pc = "opened"
                   => /\ ds.attrs.model = "aqm"
                      /\ ds.attrs.product = given.product
                      /\ ds.attrs.domain = self.domain
       ELSE /\ calls[2].fn = "super.xarray"
            /\ calls[2].search = args.search
            /\ calls[2].remove_grib = args.remove_grib
            /\ calls[2].kwargs = args.download_kwargs
            /\ pc = "opened" => ds = Yielded

\* C10 as stated: xarray takes one of two paths by the product alone; a
\* product without the maximum marker is delegated to the standard path with
\* the caller's search, backend_kwargs, remove_grib and download arguments
\* unchanged and nothing selected or attached; the specialized path is taken
\* exactly when the product contains the marker.
C10_DelegatesUnchanged ==
    Returned
        => /\ TwoPaths
           /\ ~Contains(max, given.product)
                  => calls[2].backend_kwargs = args.backend_kwargs

\* C10 as amended: as stated, but a backend_kwargs the caller left out
\* (None) reaches the standard path as an empty dict; a backend_kwargs the
\* caller gave is passed unchanged.
C10_DelegatesWithDefault ==
    Returned
        => /\ TwoPaths
           /\ ~Contains(max, given.product)
                  => calls[2].backend_kwargs =
                         IF args.backend_kwargs = None THEN <<>>
                         ELSE args.backend_kwargs

C10_Delegated ==
    /\ pc = "opened"
    /\ given.product = ave_1hr_pm25
    /\ args.backend_kwargs = None
    /\ args.remove_grib = FALSE
    /\ calls[2].fn = "super.xarray"
    /\ calls[2].backend_kwargs = <<>>
    /\ ds = Yielded

====
